---- MODULE Spec2Model ----
(***************************************************************************)
(* RLSP (recurrent latent space propagation) video super-resolution model: *)
(* VSR/Backend/Torch/Models/Rlsp.py.                                       *)
(*                                                                         *)
(* Tensors are abstracted to a record: what produced them (kind, call,    *)
(* idx), their NCHW shape, and whether they are attached to the autograd  *)
(* graph (grad).  The numerical content of a convolution is not modelled; *)
(* the data flow, the shapes, the loop indexing, the optimizer protocol   *)
(* and the exceptions are.                                                 *)
(***************************************************************************)
EXTENDS Integers, Sequences, FiniteSets, TLC

\* ---- bounds of the model ------------------------------------------------
MaxFrames == 4      \* len(frames) ranges over 1..MaxFrames
MaxClips == 3       \* constructor argument clips ranges over 1..MaxClips
MaxCalls == 2       \* number of train/eval calls in one behaviour

\* ---- program constants --------------------------------------------------
Filters == 64       \* default of the constructor argument filters
Layers == 7         \* default of the constructor argument layers
InitLr == 1         \* Adam's initial lr 1e-4, in units of 1e-4

\* ---- fixed sizes of the inputs -------------------------------------------
Batch == 4          \* N of every input tensor
Height == 6         \* H of every LR frame
Width == 9          \* W of every LR frame
NumGroups == 2      \* parameter groups of the optimizer

\* constructor argument scale
Scales == {2, 3}

\* constructor argument channel: greyscale or RGB
Channels == {1, 3}

\* the values Metrics.psnr may give
PsnrValues == {20, 30}

\* ---- tensors ------------------------------------------------------------
Tensor(kind, call, idx, shape, grad) ==
  [kind |-> kind, call |-> call, idx |-> idx, shape |-> shape, grad |-> grad]

\* Python's None where a tensor may stand.
None == Tensor("None", 0, 0, <<>>, FALSE)

\* The shape a failed tensor operation yields (the runtime raises).
ShapeError == <<>>

\* torch.zeros(*shape) / torch.zeros_like(t): a constant, outside the graph.
Zeros(shape) == Tensor("zero", 0, 0, shape, FALSE)

ZerosLike(t) == Zeros(t.shape)

\* Detach as it would be if the result stayed attached to the graph.
DetachKeepsGraph(t) == t

\* Tensor.detach(): same value, cut from the autograd graph.
Detach(t) == [t EXCEPT !.grad = FALSE]

\* Util.Utility.upsample(img, scale): spatial size times scale.
Upsample(t, s) ==
  Tensor("upsampled", t.call, t.idx,
         <<t.shape[1], t.shape[2], t.shape[3] * s, t.shape[4] * s>>, t.grad)

\* F.interpolate(x, scale_factor=s) on shapes.
Interpolate(shape, s) ==
  IF shape = ShapeError THEN ShapeError
  ELSE <<shape[1], shape[2], shape[3] * s, shape[4] * s>>

\* F.pixel_shuffle(x, s) on shapes: (N, C*s^2, H, W) -> (N, C, H*s, W*s).
PixelShuffle(shape, s) ==
  IF shape = ShapeError \/ shape[2] % (s * s) # 0 THEN ShapeError
  ELSE <<shape[1], shape[2] \div (s * s), shape[3] * s, shape[4] * s>>

\* Ops.Scale.SpaceToDepth(s) on shapes: (N, C, H*s, W*s) -> (N, C*s^2, H, W).
SpaceToDepth(shape, s) ==
  IF shape = ShapeError \/ shape[3] % s # 0 \/ shape[4] % s # 0 THEN ShapeError
  ELSE <<shape[1], shape[2] * (s * s), shape[3] \div s, shape[4] \div s>>

\* torch.cat(shapes, dim=1): every other dimension must agree.
RECURSIVE SumChannels(_)
SumChannels(shapes) ==
  IF shapes = <<>> THEN 0 ELSE Head(shapes)[2] + SumChannels(Tail(shapes))

Cat(shapes) ==
  IF \/ shapes = <<>>
     \/ \E k \in 1..Len(shapes) : shapes[k] = ShapeError
  THEN ShapeError
  ELSE IF \E k \in 1..Len(shapes) :
            \/ shapes[k][1] # shapes[1][1]
            \/ shapes[k][3] # shapes[1][3]
            \/ shapes[k][4] # shapes[1][4]
       THEN ShapeError
       ELSE <<shapes[1][1], SumChannels(shapes), shapes[1][3], shapes[1][4]>>

\* Ops.Blocks.EasyConv2d(in, out, 3): a 3x3 'same' convolution.
EasyConv2d(in_channels, out_channels, shape) ==
  IF shape = ShapeError \/ shape[2] # in_channels THEN ShapeError
  ELSE <<shape[1], out_channels, shape[3], shape[4]>>

\* a + b on shapes (equal shapes; broadcasting is not relied on).
Add(a, b) == IF a = ShapeError \/ a # b THEN ShapeError ELSE a

\* ---- RLSPCell -----------------------------------------------------------
\* RLSPCell.__init__: the channel counts the convolutions are built with.
RLSPCell(in_channels, out_channels, hidden_channels, layers) ==
  [in_channels |-> in_channels, out_channels |-> out_channels,
   hidden_channels |-> hidden_channels, layers |-> layers]

\* self.cell: EasyConv2d(in, hidden) followed by the convolutions of
\* range(1, layers - 1), each EasyConv2d(hidden, hidden).
RECURSIVE CellStack(_, _, _)
CellStack(cell, k, shape) ==
  IF k >= cell.layers - 1 THEN shape
  ELSE CellStack(cell, k + 1,
                 EasyConv2d(cell.hidden_channels, cell.hidden_channels, shape))

\* RLSPCell.forward on shapes.
RLSPCellForward(cell, lr_frames, feedback, hidden_state) ==
  LET lr == Cat(lr_frames)
      inputs == Cat(<<lr, hidden_state, feedback>>)
      x == CellStack(cell, 1,
                     EasyConv2d(cell.in_channels, cell.hidden_channels, inputs))
  IN [inputs |-> inputs,
      residual |-> EasyConv2d(cell.hidden_channels, cell.out_channels, x),
      next_hidden_state |->
        EasyConv2d(cell.hidden_channels, cell.hidden_channels, x)]

\* ---- RlspNet ------------------------------------------------------------
\* InChannels with the feedback counted as channel * scale channels.
InChannelsUnsquared(s, channel, depth, filters) ==
  channel * depth + filters + channel * s

\* in_channels of RlspNet.__init__.
InChannels(s, channel, depth, filters) ==
  channel * depth + filters + channel * s * s

\* RlspNet.__init__.
RlspNet(s, channel, depth, layers, filters) ==
  [rlspcell |-> RLSPCell(InChannels(s, channel, depth, filters),
                         channel * s * s, filters, layers),
   f |-> filters, d |-> depth, s |-> s]

\* The hidden state RlspNet.forward works with: zeros of lr[0]'s shape with
\* self.f channels when the caller passed None.
HiddenOrZeros(net, lr, hidden) ==
  IF hidden = None
  THEN Zeros(<<lr[1].shape[1], net.f, lr[1].shape[3], lr[1].shape[4]>>)
  ELSE hidden

\* The feedback RlspNet.forward gives the cell: shuffle(sr).detach().
Feedback(net, sr) ==
  Detach([sr EXCEPT !.shape = SpaceToDepth(sr.shape, net.s)])

\* RlspNet.forward(lr, sr, hidden), called for window i of call `call`.
\* lr is the Python list lr_group (1-based here, so lr[self.d // 2] is
\* lr[net.d \div 2 + 1]).  The record also keeps what the cell was given.
RlspNetForward(net, lr, sr, hidden, call, i) ==
  LET hidden0 == HiddenOrZeros(net, lr, hidden)
      base == lr[net.d \div 2 + 1]
      center == Interpolate(base.shape, net.s)
      feedback == Feedback(net, sr)
      cell == RLSPCellForward(net.rlspcell,
                              [k \in 1..Len(lr) |-> lr[k].shape],
                              feedback.shape, hidden0.shape)
      out == Add(center, PixelShuffle(cell.residual, net.s))
  IN [ok |-> out # ShapeError /\ cell.next_hidden_state # ShapeError,
      out |-> Tensor("sr", call, i, out, TRUE),
      next |-> Tensor("hidden", call, i, cell.next_hidden_state, TRUE),
      i |-> i,
      lr |-> [k \in 1..Len(lr) |-> lr[k].idx],
      base |-> base.idx,
      sr |-> sr,
      feedback |-> feedback,
      hidden_arg |-> hidden,
      hidden |-> hidden0,
      inputs |-> cell.inputs]

\* ---- Python helpers -----------------------------------------------------
\* list[k] of a Python list of length n does not raise IndexError.
InRange(k, n) == -n <= k /\ k < n

\* list[k] of a Python list (0-based, negative k counts from the end).
PyGet(list, k) == IF k >= 0 THEN list[k + 1] ELSE list[Len(list) + k + 1]

\* Truthy as `if learning_rate is not None:` would have it.
TruthyNotNone(lr) == ~lr.isNone

\* `if learning_rate:` -- None and 0 are falsy.
Truthy(lr) == ~lr.isNone /\ lr.value # 0

\* range(self.clips // 2, len(frames) - self.clips // 2)
RangeStartZero(c) == 0

RangeStart(c) == c \div 2

RangeStopInclusive(n, c) == n - c \div 2 + 1

RangeStop(n, c) == n - c \div 2

\* the index i - self.clips // 2 + j of the j-th frame of lr_group
LrGroupIndex(idx, c, j) == idx - c \div 2 + j

\* total_loss = 0 / image_loss = 0: a Python int, not a tensor.
IntZero == [tensor |-> FALSE, terms |-> <<>>, grad |-> FALSE]

\* F.mse_loss(sr, labels[i])
MseLoss(sr, label) == [pred |-> sr.idx, label |-> label.idx, grad |-> sr.grad]

\* total_loss += loss
AddLoss(total, loss) ==
  [tensor |-> TRUE, terms |-> Append(total.terms, loss),
   grad |-> total.grad \/ loss.grad]

\* PsnrSample taken against the label of the following frame.
PsnrSampleShifted(sr, label, v) ==
  [pred |-> sr, label |-> label.idx + 1, value |-> v]

\* the sample Metrics.psnr(sr, labels[i]) appended to psnr, of value v
PsnrSample(sr, label, v) == [pred |-> sr, label |-> label.idx, value |-> v]

RECURSIVE SumValues(_)
SumValues(samples) ==
  IF samples = <<>> THEN 0 ELSE Head(samples).value + SumValues(Tail(samples))

\* np.mean(psnr) as the pair sum / count; nan for an empty list.
NpMean(samples) ==
  [nan |-> samples = <<>>, sum |-> SumValues(samples), count |-> Len(samples)]

NoMetrics == [keys |-> {}, psnr |-> NpMean(<<>>)]

NoResult == [status |-> "none", error |-> "", keys |-> {}, div |-> 0]

Returned(keys, div) ==
  [status |-> "returned", error |-> "", keys |-> keys, div |-> div]

Raised(error) == [status |-> "raised", error |-> error, keys |-> {}, div |-> 0]

NoLabels == [isNone |-> TRUE, items |-> <<>>]

\* ---- state --------------------------------------------------------------
VARIABLES
  clips, scale, channel,   \* self.clips, self.scale, self.channel
  rlsp,                    \* self.rlsp
  param_groups,            \* self.adam.param_groups
  adam,                    \* self.adam: steps taken, state of the .grad fields
  weights,                 \* version of the trainable variables
  pc, op, callNo,          \* position in the running call, its method, its number
  frames, labels, learning_rate, kwargs,   \* arguments of the running call
  writer,                  \* get_writer(self.name) is not None
  i, it,                   \* loop variable, next value the range yields
  last_sr, last_hidden, total_loss, image_loss, psnr, predicts, metrics,
  result,                  \* how the call ended
  calls,                   \* the invocations of self.rlsp in the running call
  events,                  \* loss accumulations and optimizer operations
  written,                 \* images given to the summary writer
  lastLr                   \* most recent non-zero learning_rate passed to train

model == <<clips, scale, channel, rlsp>>
optimizer == <<param_groups, adam, weights>>
args == <<frames, labels, learning_rate, kwargs>>
locals == <<i, it, last_sr, last_hidden, total_loss, image_loss, psnr,
            predicts, metrics>>
vars == <<model, optimizer, pc, op, callNo, args, writer, locals, result,
          calls, events, written, lastLr>>

LearningRates ==
  {[isNone |-> TRUE, value |-> 0]} \cup
  {[isNone |-> FALSE, value |-> v] : v \in 0..2}

\* inputs[0].split(1, dim=1) squeezed: the frames of call c
Frames(c, n) ==
  [k \in 1..n |-> Tensor("frame", c, k - 1, <<Batch, channel, Height, Width>>, FALSE)]

\* labels[0].split(1, dim=1) squeezed: the HR frames of call c
Labels(c, n) ==
  [isNone |-> FALSE,
   items |-> [k \in 1..n |-> Tensor("label", c, k - 1,
                <<Batch, channel, Height * scale, Width * scale>>, FALSE)]]

\* RLSP.__init__
Init ==
  /\ clips \in 1..MaxClips
  /\ scale \in Scales
  /\ channel \in Channels
  /\ rlsp = RlspNet(scale, channel, clips, Layers, Filters)
  /\ param_groups = [g \in 1..NumGroups |-> [lr |-> InitLr]]
  /\ adam = [steps |-> 0, grads |-> "none"]
  /\ weights = 0
  /\ pc = "idle" /\ op = "none" /\ callNo = 0
  /\ frames = <<>> /\ labels = NoLabels
  /\ learning_rate = [isNone |-> TRUE, value |-> 0]
  /\ kwargs = [hasEpoch |-> FALSE]
  /\ writer = FALSE
  /\ i = 0 /\ it = 0
  /\ last_sr = None /\ last_hidden = None
  /\ total_loss = IntZero /\ image_loss = IntZero
  /\ psnr = <<>> /\ predicts = <<>> /\ metrics = NoMetrics
  /\ result = NoResult
  /\ calls = <<>> /\ events = <<>> /\ written = <<>>
  /\ lastLr = InitLr
\* ---- RLSP.train ---------------------------------------------------------
\* the raw indices i - self.clips // 2 + j, j in range(self.clips)
LrGroupIndices(idx) == [j \in 1..clips |-> LrGroupIndex(idx, clips, j - 1)]

\* lr_group = [frames[i - self.clips // 2 + j] for j in range(self.clips)]
LrGroup(idx) == [j \in 1..clips |-> PyGet(frames, LrGroupIndices(idx)[j])]

LrGroupInRange(idx) ==
  \A j \in 1..clips : InRange(LrGroupIndices(idx)[j], Len(frames))

\* one self.rlsp(...) invocation as kept in calls
Invocation(fw, idx) == fw @@ [raw |-> LrGroupIndices(idx), label |-> idx]

\* an exception leaves the call
Raise(error) ==
  /\ pc' = "idle"
  /\ result' = Raised(error)

\* lines 87-96: split the inputs, set the learning rate, initialise the locals
TrainBegin(n, lr) ==
  /\ pc = "idle"
  /\ callNo < MaxCalls
  /\ callNo' = callNo + 1
  /\ op' = "train"
  /\ frames' = Frames(callNo + 1, n)
  /\ labels' = Labels(callNo + 1, n)
  /\ learning_rate' = lr
  /\ param_groups' = IF Truthy(lr)
                     THEN [g \in DOMAIN param_groups |->
                             [param_groups[g] EXCEPT !.lr = lr.value]]
                     ELSE param_groups
  /\ lastLr' = IF ~lr.isNone /\ lr.value > 0 THEN lr.value ELSE lastLr
  /\ total_loss' = IntZero
  /\ image_loss' = IntZero
  /\ last_hidden' = None
  /\ last_sr' = ZerosLike(Upsample(frames'[1], scale))
  /\ i' = 0
  /\ it' = RangeStart(clips)
  /\ pc' = "train_loop"
  /\ psnr' = <<>> /\ predicts' = <<>> /\ metrics' = NoMetrics
  /\ result' = NoResult
  /\ calls' = <<>> /\ events' = <<>> /\ written' = <<>>
  /\ UNCHANGED <<model, adam, weights, kwargs, writer>>

\* lines 97-105: one iteration of the loop
TrainWindow ==
  /\ pc = "train_loop"
  /\ it < RangeStop(Len(frames), clips)
  /\ i' = it
  /\ it' = it + 1
  /\ IF ~LrGroupInRange(it) \/ ~InRange(it, Len(labels.items))
     THEN /\ Raise("IndexError")
          /\ UNCHANGED <<last_hidden, last_sr, total_loss, image_loss, calls,
                         events>>
     ELSE LET fw == RlspNetForward(rlsp, LrGroup(it), last_sr, last_hidden,
                                   callNo, it)
              l2_image == MseLoss(fw.out, PyGet(labels.items, it))
          IN IF ~fw.ok
             THEN /\ Raise("RuntimeError")
                  /\ UNCHANGED <<last_hidden, last_sr, total_loss, image_loss,
                                 calls, events>>
             ELSE /\ last_hidden' = fw.next
                  /\ last_sr' = Detach(fw.out)
                  /\ total_loss' = AddLoss(total_loss, l2_image)
                  /\ image_loss' =
                       AddLoss(image_loss, [l2_image EXCEPT !.grad = FALSE])
                  /\ calls' = Append(calls, Invocation(fw, it))
                  /\ events' = Append(events, "loss")
                  /\ UNCHANGED <<pc, result>>
  /\ UNCHANGED <<model, optimizer, op, callNo, args, writer, psnr, predicts,
                 metrics, written, lastLr>>

\* line 106, after the loop: self.adam.zero_grad()
TrainZeroGrad ==
  /\ pc = "train_loop"
  /\ it >= RangeStop(Len(frames), clips)
  /\ adam' = [adam EXCEPT !.grads = "zeroed"]
  /\ events' = Append(events, "zero_grad")
  /\ pc' = "train_backward"
  /\ UNCHANGED <<model, param_groups, weights, op, callNo, args, writer,
                 locals, result, calls, written, lastLr>>

\* line 107: total_loss.backward(); an int has no backward
TrainBackward ==
  /\ pc = "train_backward"
  /\ IF ~total_loss.tensor
     THEN /\ Raise("AttributeError")
          /\ UNCHANGED <<adam, events>>
     ELSE IF ~total_loss.grad
          THEN /\ Raise("RuntimeError")
               /\ UNCHANGED <<adam, events>>
          ELSE /\ adam' = [adam EXCEPT !.grads = "computed"]
               /\ events' = Append(events, "backward")
               /\ pc' = "train_step"
               /\ UNCHANGED result
  /\ UNCHANGED <<model, param_groups, weights, op, callNo, args, writer,
                 locals, calls, written, lastLr>>

\* line 108: self.adam.step()
TrainStep ==
  /\ pc = "train_step"
  /\ adam' = [adam EXCEPT !.steps = @ + 1]
  /\ weights' = weights + 1
  /\ events' = Append(events, "step")
  /\ pc' = "train_return"
  /\ UNCHANGED <<model, param_groups, op, callNo, args, writer, locals,
                 result, calls, written, lastLr>>

\* lines 109-112: the dictionary of losses, each divided by len(frames)
TrainReturn ==
  /\ pc = "train_return"
  /\ result' = Returned({"total_loss", "image_loss"}, Len(frames))
  /\ pc' = "idle"
  /\ UNCHANGED <<model, optimizer, op, callNo, args, writer, locals, calls,
                 events, written, lastLr>>

\* ---- RLSP.eval ----------------------------------------------------------
\* lines 115-124: split the inputs, initialise the locals
EvalBegin(n, given, epoch) ==
  /\ pc = "idle"
  /\ callNo < MaxCalls
  /\ callNo' = callNo + 1
  /\ op' = "eval"
  /\ metrics' = NoMetrics
  /\ frames' = Frames(callNo + 1, n)
  /\ labels' = IF given THEN Labels(callNo + 1, n) ELSE NoLabels
  /\ kwargs' = [hasEpoch |-> epoch]
  /\ psnr' = <<>>
  /\ predicts' = <<>>
  /\ last_sr' = ZerosLike(Upsample(frames'[1], scale))
  /\ last_hidden' = None
  /\ i' = 0
  /\ it' = RangeStart(clips)
  /\ pc' = "eval_loop"
  /\ total_loss' = IntZero /\ image_loss' = IntZero
  /\ result' = NoResult
  /\ calls' = <<>> /\ events' = <<>> /\ written' = <<>>
  /\ UNCHANGED <<model, optimizer, learning_rate, writer, lastLr>>

\* lines 125-131: one iteration of the loop, apart from the optimizer
EvalIteration ==
  /\ pc = "eval_loop"
  /\ it < RangeStop(Len(frames), clips)
  /\ i' = it
  /\ it' = it + 1
  /\ IF \/ ~LrGroupInRange(it)
        \/ ~labels.isNone /\ ~InRange(it, Len(labels.items))
     THEN /\ Raise("IndexError")
          /\ UNCHANGED <<last_sr, predicts, psnr, calls>>
     ELSE LET fw == RlspNetForward(rlsp, LrGroup(it), last_sr, last_hidden,
                                   callNo, it)
          IN IF ~fw.ok
             THEN /\ Raise("RuntimeError")
                  /\ UNCHANGED <<last_sr, predicts, psnr, calls>>
             ELSE /\ last_sr' = Detach(fw.out)
                  /\ predicts' = Append(predicts, Detach(fw.out))
                  /\ \E v \in PsnrValues :
                       psnr' = IF labels.isNone THEN psnr
                               ELSE Append(psnr,
                                      PsnrSample(fw.out,
                                                 PyGet(labels.items, it), v))
                  /\ calls' = Append(calls, Invocation(fw, it))
                  /\ UNCHANGED <<pc, result>>
  /\ UNCHANGED <<model, op, callNo, args, writer, last_hidden, total_loss,
                 image_loss, metrics, events, written, lastLr>>

\* EvalWindow as it would be if eval cleared the gradients per window.
EvalWindowZeroGrad ==
  /\ EvalIteration
  /\ adam' = [adam EXCEPT !.grads = "zeroed"]
  /\ UNCHANGED <<param_groups, weights>>

\* lines 125-131: one iteration of the loop
EvalWindow ==
  /\ EvalIteration
  /\ UNCHANGED optimizer

\* lines 132-138, after the loop: the mean PSNR, the summary images, the
\* returned pair; w is whether get_writer(self.name) gives a writer
EvalFinish(w) ==
  /\ pc = "eval_loop"
  /\ it >= RangeStop(Len(frames), clips)
  /\ metrics' = [keys |-> {"psnr"}, psnr |-> NpMean(psnr)]
  /\ writer' = w
  /\ pc' = "idle"
  /\ IF ~w
     THEN /\ result' = Returned({"predicts", "metrics"}, 0)
          /\ written' = written
     ELSE IF ~kwargs.hasEpoch
          THEN /\ result' = Raised("KeyError")
               /\ written' = written
          ELSE IF labels.isNone
               THEN /\ result' = Raised("TypeError")
                    /\ written' = Append(written, "clean")
               ELSE IF ~InRange(i, Len(labels.items))
                    THEN /\ result' = Raised("IndexError")
                         /\ written' = Append(written, "clean")
                    ELSE /\ result' = Returned({"predicts", "metrics"}, 0)
                         /\ written' = written \o <<"clean", "label">>
  /\ UNCHANGED <<model, optimizer, op, callNo, args, i, it, last_sr,
                 last_hidden, total_loss, image_loss, psnr, predicts, calls,
                 events, lastLr>>

Next ==
  \/ \E n \in 1..MaxFrames, lr \in LearningRates :
       TrainBegin(n, lr)
  \/ TrainWindow
  \/ TrainZeroGrad
  \/ TrainBackward
  \/ TrainStep
  \/ TrainReturn
  \/ \E n \in 1..MaxFrames, given \in BOOLEAN, epoch \in BOOLEAN :
       EvalBegin(n, given, epoch)
  \/ EvalWindow
  \/ \E w \in BOOLEAN : EvalFinish(w)

Spec == Init /\ [][Next]_vars

\* ---- properties ---------------------------------------------------------
\* the call of method m has ended, by a return or by an exception
Ended(m) == op = m /\ pc = "idle" /\ result.status # "none"

\* the loop of the running call has been left
LoopDone == op # "none" /\ pc \notin {"train_loop", "eval_loop"}

HrShape == <<Batch, channel, Height * scale, Width * scale>>

Max(a, b) == IF a >= b THEN a ELSE b

\* the number of windows the loop processes
Windows == Max(0, Len(frames) - 2 * (clips \div 2))

RECURSIVE Total(_, _)
Total(samples, k) ==
  IF k = 0 THEN 0 ELSE Total(samples, k - 1) + samples[k].value

\* C1: in train and in eval the hidden state is zero at the first window of a
\* call and, at every later window, is the next-hidden-state the network
\* returned for the previous window of the same call.
C1_HiddenThreaded ==
  \A k \in 1..Len(calls) :
    /\ k = 1 => calls[k].hidden_arg = None /\ calls[k].hidden.kind = "zero"
    /\ k > 1 => /\ calls[k].hidden_arg = calls[k - 1].next
                /\ calls[k].hidden.call = callNo

\* C2 as stated: whenever eval returns, there is one prediction per window in
\* increasing frame order, one PSNR sample per prediction, taken between the
\* prediction of window i and labels[i], and metrics['psnr'] is their mean.
C2_PsnrPerPrediction ==
  (Ended("eval") /\ result.status = "returned") =>
    /\ Len(predicts) = Len(calls)
    /\ \A k \in 1..Len(predicts) : predicts[k].idx = calls[k].i
    /\ \A k \in 1..(Len(predicts) - 1) : predicts[k].idx < predicts[k + 1].idx
    /\ Len(psnr) = Len(predicts)
    /\ \A k \in 1..Len(psnr) :
         psnr[k].pred = calls[k].out /\ psnr[k].label = calls[k].i
    /\ "psnr" \in metrics.keys
    /\ metrics.psnr.count = Len(predicts)
    /\ metrics.psnr.sum = Total(psnr, Len(psnr))

\* C2 amended: the same, for the calls of eval that were given labels; the
\* mean is nan when no window was processed.
C2_PsnrWhenLabelled ==
  (Ended("eval") /\ result.status = "returned" /\ ~labels.isNone) =>
    /\ Len(predicts) = Len(calls)
    /\ \A k \in 1..Len(predicts) : predicts[k].idx = calls[k].i
    /\ \A k \in 1..(Len(predicts) - 1) : predicts[k].idx < predicts[k + 1].idx
    /\ Len(psnr) = Len(predicts)
    /\ \A k \in 1..Len(psnr) :
         psnr[k].pred = calls[k].out /\ psnr[k].label = calls[k].i
    /\ "psnr" \in metrics.keys
    /\ metrics.psnr.count = Len(predicts)
    /\ metrics.psnr.sum = Total(psnr, Len(psnr))
    /\ metrics.psnr.nan <=> Len(predicts) = 0

C2_Witness ==
  /\ Ended("eval") /\ result.status = "returned" /\ ~labels.isNone
  /\ Len(predicts) = 3
  /\ psnr[1].value # psnr[2].value
  /\ metrics.psnr.sum = 70

\* C3: every call of train ends by returning {'total_loss', 'image_loss'}
\* after the losses were accumulated and then zero_grad, backward and step
\* were applied once each in that order, whatever the sequence length.
C3_OneOptimizerStep ==
  Ended("train") =>
    /\ result.status = "returned"
    /\ result.keys = {"total_loss", "image_loss"}
    /\ events = [k \in 1..Len(calls) |-> "loss"]
                  \o <<"zero_grad", "backward", "step">>

\* C4: no step of eval zeroes gradients, back-propagates or steps the
\* optimizer: parameters, optimizer state and learning rates stay as they are.
C4_EvalLeavesOptimizer ==
  [][op' = "eval" =>
       /\ weights' = weights
       /\ adam' = adam
       /\ param_groups' = param_groups
       /\ events' = <<>>]_vars

C4_Witness ==
  /\ Ended("eval") /\ result.status = "returned"
  /\ Len(calls) >= 2
  /\ adam.steps = 1 /\ adam.grads = "computed" /\ weights = 1
  /\ param_groups[1].lr = 2

\* C5: every forward step gives an output of shape (N, channel, H*scale,
\* W*scale) and a hidden state of shape (N, filters, H, W), and the cell's
\* concatenated input has the declared in_channels channels; no step fails
\* on a shape.
C5_ShapesConsistent ==
  /\ result.error # "RuntimeError"
  /\ \A k \in 1..Len(calls) :
       /\ calls[k].out.shape = HrShape
       /\ calls[k].next.shape = <<Batch, Filters, Height, Width>>
       /\ calls[k].hidden.shape = <<Batch, Filters, Height, Width>>
       /\ calls[k].sr.shape = HrShape
       /\ calls[k].feedback.shape =
            <<Batch, channel * scale * scale, Height, Width>>
       /\ calls[k].inputs =
            <<Batch, rlsp.rlspcell.in_channels, Height, Width>>
       /\ calls[k].inputs[2] =
            channel * clips + Filters + channel * scale * scale

C5_Witness ==
  /\ op = "train" /\ Len(calls) >= 2
  /\ scale = 2 /\ channel = 3 /\ clips = 3
  /\ calls[2].hidden = calls[1].next
  /\ calls[2].sr.kind = "sr"

\* C6 as stated: the network is invoked n - clips + 1 times when n >= clips
\* and never when n < clips, for odd and for even clips.
C6_EveryWindow ==
  LoopDone =>
    Len(calls) = IF Len(frames) >= clips THEN Len(frames) - clips + 1 ELSE 0

\* C6 amended: the network is invoked once for each i of
\* clips//2 .. n - clips//2 - 1, that is max(0, n - 2*(clips//2)) times:
\* n - clips + 1 for odd clips, n - clips for even clips; an eval that
\* returns gives that many predictions.
C6_WindowCount ==
  LoopDone =>
    /\ Len(calls) = Windows
    /\ \A k \in 1..Len(calls) : calls[k].i = clips \div 2 + k - 1
    /\ (clips % 2 = 1 /\ Len(frames) >= clips) =>
         Len(calls) = Len(frames) - clips + 1
    /\ (clips % 2 = 0 /\ Len(frames) >= clips) =>
         Len(calls) = Len(frames) - clips
    /\ Len(frames) < clips => Len(calls) = 0
    /\ (Ended("eval") /\ result.status = "returned") =>
         Len(predicts) = Windows

C6_Witness ==
  /\ Ended("eval") /\ result.status = "returned"
  /\ clips = 2 /\ Len(frames) = 4 /\ Len(predicts) = 2

\* C7: the feedback of the first window of a call is an all-zero frame of
\* the high-resolution shape; the feedback of every later window is the
\* detached output of the window before it; the feedback never carries
\* gradients, the hidden state of a later window of train does.
C7_FeedbackDetached ==
  \A k \in 1..Len(calls) :
    /\ k = 1 => calls[k].sr = [kind |-> "zero", call |-> 0, idx |-> 0,
                               shape |-> HrShape, grad |-> FALSE]
    /\ k > 1 => /\ calls[k].sr = [calls[k - 1].out EXCEPT !.grad = FALSE]
                /\ calls[k].sr.kind = "sr" /\ calls[k].sr.call = callNo
    /\ ~calls[k].sr.grad
    /\ ~calls[k].feedback.grad
    /\ (op = "train" /\ k > 1) => calls[k].hidden.grad

C7_Witness ==
  /\ op = "train" /\ Len(calls) = 3
  /\ calls[3].sr.idx = calls[2].i
  /\ calls[3].hidden.grad

C9_LearningRate ==
  /\ \A g \in DOMAIN param_groups : param_groups[g].lr = lastLr
  /\ \A g, h \in DOMAIN param_groups : param_groups[g].lr = param_groups[h].lr
  /\ (op = "train" /\ ~learning_rate.isNone /\ learning_rate.value # 0) =>
       \A g \in DOMAIN param_groups : param_groups[g].lr = learning_rate.value
  /\ (callNo = 0 \/ (callNo = 1 /\ op = "train" /\ learning_rate.isNone)) =>
       \A g \in DOMAIN param_groups : param_groups[g].lr = InitLr

C9_Witness ==
  /\ Ended("train") /\ result.status = "returned"
  /\ callNo = 2 /\ adam.steps = 2
  /\ ~learning_rate.isNone /\ learning_rate.value = 0
  /\ param_groups[1].lr = 2

\* C10: a call of eval without labels returns the predictions of every
\* window and a metrics dictionary with 'psnr', with or without a summary
\* writer (here: for the calls that pass `epoch`).
C10_LabelsOptional ==
  (Ended("eval") /\ labels.isNone /\ kwargs.hasEpoch) =>
    /\ result.status = "returned"
    /\ "psnr" \in metrics.keys
    /\ Len(predicts) = Len(calls)
====
